---- MODULE Spec2Model ----
(***************************************************************************)
(* Verification model of three Home Assistant integration modules:         *)
(*   homeassistant/components/aladdin_connect/__init__.py  (client setup)  *)
(*   homeassistant/components/aemet/weather.py             (weather entity)*)
(*   homeassistant/components/synology_dsm/camera.py       (camera entity) *)
(*                                                                         *)
(* Every operation completes with an outcome record [kind, val]:           *)
(*   kind = "return" : the call returned val                               *)
(*   kind = "raise"  : the call raised an exception of class val           *)
(***************************************************************************)
EXTENDS Integers, Sequences, FiniteSets, TLC

VARIABLES
    \* ---- aladdin_connect ----
    entryData,      \* entry.data of each aladdin config entry
    aPc,            \* position of each async_setup_entry coroutine
    acc,            \* the coroutine's local AladdinConnectClient
    aCause,         \* what the step that ended the last attempt did
    aOutcome,       \* how the last async_setup_entry attempt ended
    hassData,       \* hass.data (only the aladdin DOMAIN key is modelled)
    aPlatforms,     \* entries whose cover platform is set up
    aSucceeded,     \* entries for which async_setup_entry has returned True
    aAttempts,      \* number of setup attempts started per entry
    \* ---- aemet weather ----
    wData,          \* WeatherUpdateCoordinator.data, the latest snapshot
    wSuccess,       \* WeatherUpdateCoordinator.last_update_success
    wEntities,      \* the AemetWeather entities added so far
    \* ---- synology_dsm camera ----
    cApis,          \* api.dsm.apis of each NAS: the API keys it offers
    cData,          \* coordinator.data of each entry's camera coordinator
    cSuccess,       \* coordinator.last_update_success
    cSetup,         \* how camera.async_setup_entry stands or ended
    cEntities,      \* the SynoDSMCamera entities added, in order
    cStream,        \* Camera.stream of each entity: its source, or "None"
    cSubs,          \* dispatcher: the connected signal handlers
    \* ---- the last entity operation the host invoked ----
    op,             \* which operation, on which entity
    ret,            \* its outcome
    vendorCall,     \* the vendor API call it made, if any
    vendorDid       \* what that vendor call did

aladdinVars == <<entryData, aPc, acc, aCause, aOutcome, hassData, aPlatforms,
                 aSucceeded, aAttempts>>
weatherVars == <<wData, wSuccess, wEntities>>
cameraVars == <<cApis, cData, cSuccess, cSetup, cEntities, cStream, cSubs>>
callVars == <<op, ret, vendorCall, vendorDid>>

vars == <<entryData, aPc, acc, aCause, aOutcome, hassData, aPlatforms,
          aSucceeded, aAttempts, wData, wSuccess, wEntities,
          cApis, cData, cSuccess, cSetup, cEntities, cStream, cSubs,
          op, ret, vendorCall, vendorDid>>

----------------------------------------------------------------------------
(* Outcomes and the exception class hierarchy                              *)

Return(v) == [kind |-> "return", val |-> v]
Raise(cls) == [kind |-> "raise", val |-> cls]
NoOutcome == [kind |-> "none", val |-> ""]
Pending == [kind |-> "pending", val |-> ""]

\* Direct base class of the Python built-in exceptions the modules can meet.
BuiltinParent ==
    [ Exception              |-> "BaseException",
      TypeError              |-> "Exception",
      NameError              |-> "Exception",
      ValueError             |-> "Exception",
      JSONDecodeError        |-> "ValueError",
      LookupError            |-> "Exception",
      KeyError               |-> "LookupError",
      OSError                |-> "Exception",
      ConnectionError        |-> "OSError",
      ConnectionRefusedError |-> "ConnectionError" ]

\* Direct base class of the host's exceptions (homeassistant.exceptions).
HostParent ==
    [ HomeAssistantError    |-> "Exception",
      ConfigEntryAuthFailed |-> "HomeAssistantError",
      ConfigEntryNotReady   |-> "HomeAssistantError" ]

\* Direct base class of the vendor's exceptions (synology_dsm.exceptions).
VendorParent ==
    [ SynologyDSMException            |-> "Exception",
      SynologyDSMAPIErrorException    |-> "SynologyDSMException",
      SynologyDSMRequestException     |-> "SynologyDSMException",
      SynologyDSMLoginFailedException |-> "SynologyDSMException" ]

Parent == BuiltinParent @@ HostParent @@ VendorParent

RECURSIVE IsSubclass(_, _)
IsSubclass(cls, base) ==
    \/ cls = base
    \/ /\ cls \in DOMAIN Parent
       /\ IsSubclass(Parent[cls], base)

\* Python's "except (A, B, ...)": matches when the raised class derives from
\* one of the listed classes.
ExceptMatches(cls, classes) == \E base \in classes : IsSubclass(cls, base)

----------------------------------------------------------------------------
(* aladdin_connect/__init__.py                                             *)

MaxAttempts == 2

AEntries == {"a1", "a2"}
ALADDIN_DOMAIN == "aladdin_connect"
CONF_USERNAME == "username"
CONF_PASSWORD == "password"

EmptyDict == <<>>
NoClient == [username |-> "", password |-> ""]

\* Shapes of entry.data a stored config entry can have.
EntryDataChoices ==
    { (CONF_USERNAME :> "user") @@ (CONF_PASSWORD :> "pw"),
      (CONF_USERNAME :> "user"),
      EmptyDict }

\* What the vendor constructor AladdinConnectClient(username, password) can do.
ConstructOutcomes == { Return("client"), Raise("TypeError") }

\* What the vendor call acc.login() can do.
LoginOutcomes ==
    { Return("True"), Return("False"),
      Raise("TypeError"), Raise("KeyError"), Raise("NameError"),
      Raise("ValueError"), Raise("JSONDecodeError"), Raise("OSError") }

Truthy(v) == v = "True"

\* A handler that catches every exception.
SetupExceptClassesBroad == {"Exception"}

\* The except clause of async_setup_entry, line 27.
SetupExceptClasses == {"TypeError", "KeyError", "NameError", "ValueError"}

\* entry.data[key], lines 21-22.
DictGet(d, key) ==
    IF key \in DOMAIN d THEN Return(d[key]) ELSE Raise("KeyError")

\* The login call with no handler around it.
TryLoginUnguarded(login) ==
    IF login.kind = "raise" THEN login
    ELSE IF ~Truthy(login.val) THEN Raise("ConfigEntryAuthFailed")
    ELSE Return("fallthrough")

\* The try block with the result of login ignored.
TryLoginIgnoresResult(login) ==
    IF login.kind = "raise" /\ ExceptMatches(login.val, SetupExceptClasses)
    THEN Raise("ConfigEntryNotReady")
    ELSE IF login.kind = "raise" THEN login
    ELSE Return("fallthrough")

\* Lines 24-29: the try block around login and its except clause.  The
\* argument is what login did; the result is how the try statement ends
\* (Return("fallthrough") when control leaves it normally).
TryLogin(login) ==
    LET body == IF login.kind = "raise" THEN login
                ELSE IF ~Truthy(login.val) THEN Raise("ConfigEntryAuthFailed")
                ELSE Return("fallthrough")
    IN  IF body.kind = "raise" /\ ExceptMatches(body.val, SetupExceptClasses)
        THEN Raise("ConfigEntryNotReady")
        ELSE body

\* Line 30: hass.data.setdefault(DOMAIN, {})[entry_id] = client
SetDefaultStore(data, entry_id, client) ==
    LET inner == IF ALADDIN_DOMAIN \in DOMAIN data THEN data[ALADDIN_DOMAIN]
                 ELSE EmptyDict
        stored == [k \in (DOMAIN inner) \cup {entry_id} |->
                       IF k = entry_id THEN client ELSE inner[k]]
    IN  [k \in (DOMAIN data) \cup {ALADDIN_DOMAIN} |->
             IF k = ALADDIN_DOMAIN THEN stored ELSE data[k]]

\* Lines 21-23, up to the await of line 25: read the credentials, construct
\* the client, hand login to the executor.
ASetupStart(e) ==
    /\ aPc[e] = "idle"
    /\ e \notin aPlatforms
    /\ aAttempts[e] < MaxAttempts
    /\ aAttempts' = [aAttempts EXCEPT ![e] = @ + 1]
    /\ LET username == DictGet(entryData[e], CONF_USERNAME)
           password == DictGet(entryData[e], CONF_PASSWORD)
       IN  IF username.kind = "raise" \/ password.kind = "raise"
           THEN LET exc == IF username.kind = "raise" THEN username
                           ELSE password
                IN  /\ aCause' = [aCause EXCEPT ![e] =
                                     [step |-> "read_credentials", did |-> exc]]
                    /\ aOutcome' = [aOutcome EXCEPT ![e] = exc]
                    /\ UNCHANGED <<aPc, acc>>
           ELSE \E made \in ConstructOutcomes :
                    /\ aCause' = [aCause EXCEPT ![e] =
                                     [step |-> "construct", did |-> made]]
                    /\ IF made.kind = "raise"
                       THEN /\ aOutcome' = [aOutcome EXCEPT ![e] = made]
                            /\ UNCHANGED <<aPc, acc>>
                       ELSE /\ aOutcome' = [aOutcome EXCEPT ![e] = Pending]
                            /\ acc' = [acc EXCEPT ![e] =
                                          [username |-> username.val,
                                           password |-> password.val]]
                            /\ aPc' = [aPc EXCEPT ![e] = "login"]
    /\ UNCHANGED <<entryData, hassData, aPlatforms, aSucceeded>>
    /\ UNCHANGED <<weatherVars, cameraVars, callVars>>

\* Lines 25-33, from the completion of the awaited login to the end; line
\* 31 sets up the platforms of PLATFORMS, the cover platform.
ASetupLoginDone(e) ==
    /\ aPc[e] = "login"
    /\ \E login \in LoginOutcomes :
        LET try == TryLogin(login)
        IN  /\ aCause' = [aCause EXCEPT ![e] = [step |-> "login", did |-> login]]
            /\ IF try.kind = "raise"
               THEN /\ aOutcome' = [aOutcome EXCEPT ![e] = try]
                    /\ UNCHANGED <<hassData, aPlatforms, aSucceeded>>
               ELSE /\ hassData' = SetDefaultStore(hassData, e, acc[e])
                    /\ aPlatforms' = aPlatforms \cup {e}
                    /\ aOutcome' = [aOutcome EXCEPT ![e] = Return("True")]
                    /\ aSucceeded' = aSucceeded \cup {e}
    /\ aPc' = [aPc EXCEPT ![e] = "idle"]
    /\ acc' = [acc EXCEPT ![e] = NoClient]
    /\ UNCHANGED <<entryData, aAttempts>>
    /\ UNCHANGED <<weatherVars, cameraVars, callVars>>

\* async_unload_entry, lines 36-38: forwards to the host, which unloads the
\* platforms; hass.data is left as it is.
AUnloadEntry(e) ==
    /\ aPc[e] = "idle"
    /\ e \in aPlatforms
    /\ aPlatforms' = aPlatforms \ {e}
    /\ UNCHANGED <<entryData, aPc, acc, aCause, aOutcome, hassData,
                   aSucceeded, aAttempts>>
    /\ UNCHANGED <<weatherVars, cameraVars, callVars>>

\* The aladdin part of the initial state, for the given entry.data.
AladdinStart(data) ==
    /\ entryData = data
    /\ aPc = [e \in AEntries |-> "idle"]
    /\ acc = [e \in AEntries |-> NoClient]
    /\ aCause = [e \in AEntries |-> [step |-> "none", did |-> NoOutcome]]
    /\ aOutcome = [e \in AEntries |-> NoOutcome]
    /\ hassData = EmptyDict
    /\ aPlatforms = {}
    /\ aSucceeded = {}
    /\ aAttempts = [e \in AEntries |-> 0]

AladdinNext ==
    \E e \in AEntries :
        \/ ASetupStart(e)
        \/ ASetupLoginDone(e)
        \/ AUnloadEntry(e)

----------------------------------------------------------------------------
(* aemet/weather.py                                                        *)

MaxSnapshots == 2

ATTR_API_CONDITION == "condition"
ATTR_API_HUMIDITY == "humidity"
ATTR_API_PRESSURE == "pressure"
ATTR_API_TEMPERATURE == "temperature"
ATTR_API_WIND_BEARING == "wind-bearing"
ATTR_API_WIND_SPEED == "wind-speed"
ATTR_API_FORECAST_DAILY == "forecast-daily"
ATTR_API_FORECAST_HOURLY == "forecast-hourly"
FORECAST_MODE_DAILY == "daily"
FORECAST_MODE_HOURLY == "hourly"
FORECAST_MODES == <<FORECAST_MODE_DAILY, FORECAST_MODE_HOURLY>>
FORECAST_MODE_ATTR_API ==
    (FORECAST_MODE_DAILY :> ATTR_API_FORECAST_DAILY)
    @@ (FORECAST_MODE_HOURLY :> ATTR_API_FORECAST_HOURLY)

WeatherKeys ==
    { ATTR_API_CONDITION, ATTR_API_HUMIDITY, ATTR_API_PRESSURE,
      ATTR_API_TEMPERATURE, ATTR_API_WIND_BEARING, ATTR_API_WIND_SPEED,
      ATTR_API_FORECAST_DAILY, ATTR_API_FORECAST_HOURLY }

\* The snapshot of the g-th fetch: every field differs from every other field
\* and from the same field of every other fetch.
WeatherSnapshot(g) == [k \in WeatherKeys |-> k \o "@" \o ToString(g)]

AEMET_ENTRY_NAME == "AEMET"
AEMET_UNIQUE_ID == "40.4-3.7"

\* AemetWeather.__init__
AemetWeather(name, unique_id, forecast_mode) ==
    [ name |-> name, unique_id |-> unique_id, forecast_mode |-> forecast_mode,
      entity_registry_enabled_default |-> (forecast_mode = FORECAST_MODE_DAILY) ]

\* The properties of AemetWeather, read on entity `self`.
condition(self) == wData[ATTR_API_CONDITION]
forecastDailyOnly(self) == wData[ATTR_API_FORECAST_DAILY]
forecast(self) == wData[FORECAST_MODE_ATTR_API[self.forecast_mode]]
humidity(self) == wData[ATTR_API_HUMIDITY]
pressure(self) == wData[ATTR_API_PRESSURE]
temperature(self) == wData[ATTR_API_TEMPERATURE]
wind_bearing(self) == wData[ATTR_API_WIND_BEARING]
wind_speed(self) == wData[ATTR_API_WIND_SPEED]

WeatherProperties ==
    { "condition", "forecast", "humidity", "pressure", "temperature",
      "wind_bearing", "wind_speed" }

WeatherProperty(self, prop) ==
    CASE prop = "condition"    -> condition(self)
      [] prop = "forecast"     -> forecast(self)
      [] prop = "humidity"     -> humidity(self)
      [] prop = "pressure"     -> pressure(self)
      [] prop = "temperature"  -> temperature(self)
      [] prop = "wind_bearing" -> wind_bearing(self)
      [] prop = "wind_speed"   -> wind_speed(self)

WeatherOp(name, self) ==
    [component |-> "weather", name |-> name, entry |-> AEMET_UNIQUE_ID,
     cam |-> 0, mode |-> self.forecast_mode]
NoOp == [component |-> "none", name |-> "", entry |-> "", cam |-> 0, mode |-> ""]
NoCall == [method |-> "none", key |-> 0, quality |-> ""]

\* weather.async_setup_entry: one entity per forecast mode.
WSetupEntry ==
    /\ wEntities = {}
    /\ wEntities' =
          { AemetWeather(AEMET_ENTRY_NAME \o " " \o FORECAST_MODES[i],
                         AEMET_UNIQUE_ID \o " " \o FORECAST_MODES[i],
                         FORECAST_MODES[i]) : i \in DOMAIN FORECAST_MODES }
    /\ UNCHANGED <<wData, wSuccess, callVars, aladdinVars, cameraVars>>

\* The host reads one property of one weather entity.
WReadProperty(self, prop) ==
    /\ self \in wEntities
    /\ op' = WeatherOp(prop, self)
    /\ ret' = Return(WeatherProperty(self, prop))
    /\ vendorCall' = NoCall
    /\ vendorDid' = NoOutcome
    /\ UNCHANGED <<weatherVars, aladdinVars, cameraVars>>

\* The coordinator's periodic refresh: a new snapshot, or a failed poll that
\* keeps the old one.
WRefresh ==
    /\ \/ \E g \in 1..MaxSnapshots :
            /\ wData' = WeatherSnapshot(g)
            /\ wSuccess' = TRUE
       \/ /\ wSuccess' = FALSE
          /\ UNCHANGED wData
    /\ UNCHANGED <<wEntities, callVars, aladdinVars, cameraVars>>

WeatherStart ==
    /\ wData = WeatherSnapshot(1)
    /\ wSuccess = TRUE
    /\ wEntities = {}

WeatherNext ==
    \/ WSetupEntry
    \/ WRefresh
    \/ \E self \in wEntities, prop \in WeatherProperties :
           WReadProperty(self, prop)


----------------------------------------------------------------------------
(* synology_dsm/camera.py                                                  *)

MaxUrls == 1

CEntries == {"s1", "s2"}
\* The camera ids each NAS can report.
NasCameraIds == [e \in CEntries |-> IF e = "s1" THEN {1, 2} ELSE {1}]
AllCameraIds == UNION { NasCameraIds[e] : e \in CEntries }

CAMERA_API_KEY == "SYNO.SurveillanceStation.Camera"
INFO_API_KEY == "SYNO.SurveillanceStation.Info"
SIGNAL_CAMERA_SOURCE_CHANGED == "synology_dsm.camera_stream_source_changed"
CONF_SNAPSHOT_QUALITY == "snap_profile_type"
DEFAULT_SNAPSHOT_QUALITY == "balanced"

\* entry.options of each config entry.
CEntryOptions ==
    [e \in CEntries |->
        IF e = "s1" THEN EmptyDict ELSE (CONF_SNAPSHOT_QUALITY :> "high")]

\* dict.get(key, default)
OptionsGet(d, key, default) == IF key \in DOMAIN d THEN d[key] ELSE default

PyBool(b) == IF b THEN "True" ELSE "False"
\* Python's "a and b" on two bools.
PyAnd(a, b) == IF ~a THEN a ELSE b
PyOr(a, b) == IF a THEN a ELSE b

\* The vendor's SynoCamera object for camera `id` of NAS `e`.
SynoCamera(e, id, flags) ==
    [ id |-> id,
      name |-> "cam" \o ToString(id),
      is_enabled |-> flags[1],
      is_recording |-> flags[2],
      is_motion_detection_enabled |-> flags[3],
      rtsp |-> "rtsp://" \o e \o "/" \o ToString(id) ]

\* The (is_enabled, is_recording, is_motion_detection_enabled) a poll can see.
CameraFlagChoices ==
    { <<TRUE, TRUE, FALSE>>, <<FALSE, FALSE, TRUE>>, <<TRUE, FALSE, TRUE>> }

\* coordinator.data before the first refresh.
NoneData == [none |-> TRUE]

\* The flags of a camera that is enabled and recording.
RecordingFlags == <<TRUE, TRUE, FALSE>>

\* Every snapshot a poll of NAS `e` can produce when the cameras it lists
\* have flags in `choices`: the vendor keys the cameras mapping by the
\* camera's own id, and lists any subset of the cameras.
Snapshots(e, choices) ==
    UNION { { [cameras |-> [id \in present |-> SynoCamera(e, id, flags[id])]] :
                flags \in [present -> choices] } :
            present \in SUBSET NasCameraIds[e] }

\* Vendor exceptions a surveillance-station call can raise.
VendorRaises ==
    { Raise("SynologyDSMAPIErrorException"),
      Raise("SynologyDSMRequestException"),
      Raise("ConnectionRefusedError"),
      Raise("SynologyDSMLoginFailedException") }

\* The bytes the NAS of entry e serves for a camera key and a quality.
Jpeg(e, key, quality) == "jpeg:" \o e \o ":" \o ToString(key) \o ":" \o quality

\* What surveillance_station.get_camera_image(key, quality) can do.
GetCameraImageOutcomes(e, call) ==
    { Return(Jpeg(e, call.key, call.quality)) } \cup VendorRaises

\* What enable_/disable_motion_detection(key) of the vendor can do.
MotionDetectionOutcomes == { Return("None") } \cup VendorRaises

VendorCall(method, key, quality) ==
    [method |-> method, key |-> key, quality |-> quality]

CameraOp(name, e, key) ==
    [component |-> "camera", name |-> name, entry |-> e, cam |-> key,
     mode |-> ""]

\* SynoDSMCamera.__init__, lines 76-95, reading the snapshot `data`.
SynoDSMCamera(e, data, camera_id) ==
    [ entry |-> e,
      key |-> camera_id,
      name |-> data.cameras[camera_id].name,
      entity_registry_enabled_default |-> data.cameras[camera_id].is_enabled,
      snapshot_quality |->
          OptionsGet(CEntryOptions[e], CONF_SNAPSHOT_QUALITY,
                     DEFAULT_SNAPSHOT_QUALITY) ]

\* SynoDSMCamera.camera_data, lines 97-100: indexing the snapshot by the
\* entity's key raises KeyError when the poll no longer lists the camera.
camera_data(self) ==
    LET cameras == cData[self.entry].cameras
    IN  IF self.key \in DOMAIN cameras THEN Return(cameras[self.key])
        ELSE Raise("KeyError")

availableEither(self) ==
    LET cd == camera_data(self)
    IN  IF cd.kind = "raise" THEN cd
        ELSE Return(PyBool(PyOr(cd.val.is_enabled, cSuccess[self.entry])))

\* SynoDSMCamera.available, lines 120-123.
available(self) ==
    LET cd == camera_data(self)
    IN  IF cd.kind = "raise" THEN cd
        ELSE Return(PyBool(PyAnd(cd.val.is_enabled, cSuccess[self.entry])))

\* SynoDSMCamera.is_recording, lines 125-128.
is_recording(self) ==
    LET cd == camera_data(self)
    IN  IF cd.kind = "raise" THEN cd ELSE Return(PyBool(cd.val.is_recording))

\* SynoDSMCamera.motion_detection_enabled, lines 130-133.
motion_detection_enabled(self) ==
    LET cd == camera_data(self)
    IN  IF cd.kind = "raise" THEN cd
        ELSE Return(PyBool(cd.val.is_motion_detection_enabled))

CameraProperties == {"available", "is_recording", "motion_detection_enabled"}

CameraProperty(self, prop) ==
    CASE prop = "available"                -> available(self)
      [] prop = "is_recording"             -> is_recording(self)
      [] prop = "motion_detection_enabled" -> motion_detection_enabled(self)

\* The except clause of camera_image, lines 170-174.
ImageExceptClasses ==
    { "SynologyDSMAPIErrorException", "SynologyDSMRequestException",
      "ConnectionRefusedError" }

\* The vendor call camera_image makes, line 169.
ImageCall(self) ==
    VendorCall("get_camera_image", self.key, self.snapshot_quality)

\* camera_image with no availability check.
camera_imageAlways(self, vendor) ==
    LET cd == camera_data(self)
    IN  IF cd.kind = "raise" THEN [ret |-> cd, call |-> NoCall]
        ELSE IF vendor.kind = "raise"
                /\ ExceptMatches(vendor.val, ImageExceptClasses)
        THEN [ret |-> Return("None"), call |-> ImageCall(self)]
        ELSE [ret |-> vendor, call |-> ImageCall(self)]

\* SynoDSMCamera.camera_image, lines 158-180.  `vendor` is what the vendor
\* call does if it is made; the result is the outcome and the call made.
camera_image(self, vendor) ==
    LET cd == camera_data(self)      \* argument of the debug log, line 164
    IN  IF cd.kind = "raise" THEN [ret |-> cd, call |-> NoCall]
        ELSE IF available(self).val # "True"
        THEN [ret |-> Return("None"), call |-> NoCall]
        ELSE IF vendor.kind = "raise"
                /\ ExceptMatches(vendor.val, ImageExceptClasses)
        THEN [ret |-> Return("None"), call |-> ImageCall(self)]
        ELSE [ret |-> vendor, call |-> ImageCall(self)]

\* SynoDSMCamera.stream_source, lines 182-191.
stream_source(self) ==
    LET cd == camera_data(self)
    IN  IF cd.kind = "raise" THEN cd
        ELSE IF available(self).val # "True" THEN Return("None")
        ELSE Return(cd.val.rtsp)

\* A motion-detection call that swallows the vendor's exceptions.
set_motion_detectionSwallowing(self, method, vendor) ==
    LET cd == camera_data(self)
    IN  IF cd.kind = "raise" THEN [ret |-> cd, call |-> NoCall]
        ELSE IF vendor.kind = "raise"
                /\ ExceptMatches(vendor.val, ImageExceptClasses)
        THEN [ret |-> Return("None"), call |-> VendorCall(method, self.key, "")]
        ELSE [ret |-> vendor, call |-> VendorCall(method, self.key, "")]

\* SynoDSMCamera.enable_motion_detection and disable_motion_detection,
\* lines 193-211: the debug log, then the vendor call with no handler.
set_motion_detection(self, method, vendor) ==
    LET cd == camera_data(self)
    IN  IF cd.kind = "raise" THEN [ret |-> cd, call |-> NoCall]
        ELSE [ret |-> vendor, call |-> VendorCall(method, self.key, "")]

\* The signal name built from the first camera the snapshot lists.
SubscriptionSignalFirstListed(self) ==
    LET cameras == cData[self.entry].cameras
        first == CHOOSE k \in DOMAIN cameras : \A j \in DOMAIN cameras : k <= j
    IN  SIGNAL_CAMERA_SOURCE_CHANGED \o "_" \o self.entry \o "_"
            \o ToString(cameras[first].id)

\* The signal name _listen_source_updates subscribes to, line 149.
SubscriptionSignal(self) ==
    LET cd == camera_data(self)
    IN  SIGNAL_CAMERA_SOURCE_CHANGED \o "_" \o self.entry \o "_"
            \o ToString(cd.val.id)

\* The signal name the integration sends for camera cam_id of an entry.
DispatchedSignal(entry_id, cam_id) ==
    SIGNAL_CAMERA_SOURCE_CHANGED \o "_" \o entry_id \o "_" \o ToString(cam_id)

\* _listen_source_updates, lines 135-152: connect _handle_signal.
listen_source_updates(self) ==
    [signal |-> SubscriptionSignal(self), entry |-> self.entry,
     key |-> self.key]

\* _handle_signal, lines 138-142: the stream of `self` after the handler ran.
handle_signal(self, url) ==
    LET stream == cStream[<<self.entry, self.key>>]
    IN  IF stream # "None"
        THEN IF camera_data(self).kind = "raise" THEN stream   \* log raises
             ELSE url                                  \* stream.update_source
        ELSE stream

\* The urls a source-changed signal can carry.
SourceUrls == { "rtsp://moved/" \o ToString(i) : i \in 1..MaxUrls }

EntityKeys(e) == { cEntities[e][i].key : i \in DOMAIN cEntities[e] }
EntityOf(e, key) ==
    CHOOSE ent \in { cEntities[e][i] : i \in DOMAIN cEntities[e] } :
        ent.key = key

RECURSIVE SortedSeq(_)
\* The keys of a dict whose keys were inserted in ascending order.
SortedSeq(S) ==
    IF S = {} THEN <<>>
    ELSE LET m == CHOOSE x \in S : \A y \in S : x <= y
         IN  <<m>> \o SortedSeq(S \ {m})

\* Line 54: SynoSurveillanceStation.CAMERA_API_KEY not in api.dsm.apis
CameraApiMissing(e) == CAMERA_API_KEY \notin cApis[e]

\* Entities for the first camera only.
NewEntitiesFirstOnly(e, data) ==
    LET ids == SortedSeq(DOMAIN data.cameras)
    IN  [i \in DOMAIN ids \cap {1} |-> SynoDSMCamera(e, data, ids[i])]

\* Lines 63-66: one SynoDSMCamera per key of data["cameras"], in dict order.
NewEntities(e, data) ==
    LET ids == SortedSeq(DOMAIN data.cameras)
    IN  [i \in DOMAIN ids |-> SynoDSMCamera(e, data, ids[i])]

Entities(e) == { cEntities[e][i] : i \in DOMAIN cEntities[e] }
\* The host has added the entities of entry e (async_added_to_hass ran).
Added(e) == \E s \in cSubs : s.entry = e
StreamOf(self) == cStream[<<self.entry, self.key>>]
CameraPairs == { <<e, k>> : e \in CEntries, k \in AllCameraIds }

\* camera.async_setup_entry up to the await of line 61 (lines 51-61).
CSetupStart(e) ==
    /\ cSetup[e] \in {NoOutcome, Raise("ConfigEntryNotReady")}
    /\ cSetup' = [cSetup EXCEPT ![e] =
                     IF CameraApiMissing(e) THEN Return("None") ELSE Pending]
    /\ UNCHANGED <<cApis, cData, cSuccess, cEntities, cStream, cSubs>>
    /\ UNCHANGED <<aladdinVars, weatherVars, callVars>>

\* The awaited first refresh completes: on failure the host's
\* async_config_entry_first_refresh raises ConfigEntryNotReady; on success
\* lines 63-66 construct the entities and hand them to async_add_entities.
CSetupFirstRefresh(e, choices) ==
    /\ cSetup[e] = Pending
    /\ \/ /\ cSuccess' = [cSuccess EXCEPT ![e] = FALSE]
          /\ cSetup' = [cSetup EXCEPT ![e] = Raise("ConfigEntryNotReady")]
          /\ UNCHANGED <<cData, cEntities>>
       \/ \E snap \in Snapshots(e, choices) :
             /\ cData' = [cData EXCEPT ![e] = snap]
             /\ cSuccess' = [cSuccess EXCEPT ![e] = TRUE]
             /\ cEntities' = [cEntities EXCEPT ![e] = NewEntities(e, snap)]
             /\ cSetup' = [cSetup EXCEPT ![e] = Return("None")]
    /\ UNCHANGED <<cApis, cStream, cSubs>>
    /\ UNCHANGED <<aladdinVars, weatherVars, callVars>>

\* The host adds the entities handed over: async_added_to_hass, lines
\* 154-156, runs _listen_source_updates on each.
CAddedToHass(e) ==
    /\ cEntities[e] # <<>>
    /\ ~Added(e)
    /\ cSubs' = cSubs \cup { listen_source_updates(self) : self \in Entities(e) }
    /\ UNCHANGED <<cApis, cData, cSuccess, cSetup, cEntities, cStream>>
    /\ UNCHANGED <<aladdinVars, weatherVars, callVars>>

\* The coordinator's periodic refresh, run while it has listeners.
CRefresh(e, choices) ==
    /\ Added(e)
    /\ \/ /\ cSuccess' = [cSuccess EXCEPT ![e] = FALSE]
          /\ UNCHANGED cData
       \/ \E snap \in Snapshots(e, choices) :
             /\ cData' = [cData EXCEPT ![e] = snap]
             /\ cSuccess' = [cSuccess EXCEPT ![e] = TRUE]
    /\ UNCHANGED <<cApis, cSetup, cEntities, cStream, cSubs>>
    /\ UNCHANGED <<aladdinVars, weatherVars, callVars>>

\* The host reads one property of a camera entity.
CReadProperty(self, prop) ==
    /\ op' = CameraOp(prop, self.entry, self.key)
    /\ ret' = CameraProperty(self, prop)
    /\ vendorCall' = NoCall
    /\ vendorDid' = NoOutcome
    /\ UNCHANGED <<cameraVars, aladdinVars, weatherVars>>

\* The host asks a camera entity for a still image.
CCameraImage(self) ==
    /\ \E vendor \in GetCameraImageOutcomes(self.entry, ImageCall(self)) :
          LET r == camera_image(self, vendor)
          IN  /\ ret' = r.ret
              /\ vendorCall' = r.call
              /\ vendorDid' = IF r.call = NoCall THEN NoOutcome
                              ELSE IF r.call = ImageCall(self) THEN vendor
                              ELSE IF vendor.kind = "raise" THEN vendor
                              ELSE Return(Jpeg(self.entry, r.call.key,
                                               r.call.quality))
    /\ op' = CameraOp("camera_image", self.entry, self.key)
    /\ UNCHANGED <<cameraVars, aladdinVars, weatherVars>>

\* enable_motion_detection that also rewrites the snapshot it was read from.
CSetMotionDetectionOptimistic(self, method) ==
    /\ \E vendor \in MotionDetectionOutcomes :
          LET r == set_motion_detection(self, method, vendor)
          IN  /\ ret' = r.ret
              /\ vendorCall' = r.call
              /\ vendorDid' = IF r.call = NoCall THEN NoOutcome ELSE vendor
    /\ op' = CameraOp(method, self.entry, self.key)
    /\ cData' = [cData EXCEPT ![self.entry] =
                    [cameras |->
                        [k \in DOMAIN @.cameras |->
                            IF k = self.key
                            THEN [@.cameras[k] EXCEPT
                                    !.is_motion_detection_enabled =
                                        (method = "enable_motion_detection")]
                            ELSE @.cameras[k]]]]
    /\ UNCHANGED <<cApis, cSuccess, cSetup, cEntities, cStream, cSubs>>
    /\ UNCHANGED <<aladdinVars, weatherVars>>

\* The host calls enable_motion_detection or disable_motion_detection.
CSetMotionDetection(self, method) ==
    /\ \E vendor \in MotionDetectionOutcomes :
          LET r == set_motion_detection(self, method, vendor)
          IN  /\ ret' = r.ret
              /\ vendorCall' = r.call
              /\ vendorDid' = IF r.call = NoCall THEN NoOutcome ELSE vendor
    /\ op' = CameraOp(method, self.entry, self.key)
    /\ UNCHANGED <<cameraVars, aladdinVars, weatherVars>>

\* The host creates the entity's stream: it calls stream_source and, given
\* a source, opens a stream on it.
CCreateStream(self) ==
    /\ StreamOf(self) = "None"
    /\ LET source == stream_source(self)
       IN  /\ ret' = source
           /\ cStream' = IF source.kind = "return" /\ source.val # "None"
                          THEN [cStream EXCEPT ![<<self.entry, self.key>>] =
                                    source.val]
                          ELSE cStream
    /\ op' = CameraOp("stream_source", self.entry, self.key)
    /\ vendorCall' = NoCall
    /\ vendorDid' = NoOutcome
    /\ UNCHANGED <<cApis, cData, cSuccess, cSetup, cEntities, cSubs>>
    /\ UNCHANGED <<aladdinVars, weatherVars>>

\* The integration sends the source-changed signal of camera cam_id of an
\* entry; the dispatcher runs every handler connected under that name.
CSourceChanged(entry_id, cam_id, url) ==
    /\ cStream' =
          [p \in DOMAIN cStream |->
              IF \E s \in cSubs :
                     /\ s.signal = DispatchedSignal(entry_id, cam_id)
                     /\ <<s.entry, s.key>> = p
              THEN handle_signal(EntityOf(p[1], p[2]), url)
              ELSE cStream[p]]
    /\ op' = CameraOp("signal " \o url, entry_id, cam_id)
    /\ ret' = Return("None")
    /\ vendorCall' = NoCall
    /\ vendorDid' = NoOutcome
    /\ UNCHANGED <<cApis, cData, cSuccess, cSetup, cEntities, cSubs>>
    /\ UNCHANGED <<aladdinVars, weatherVars>>

\* The camera part of the initial state, for the given API lists.
CameraStart(apis) ==
    /\ cApis = apis
    /\ cData = [e \in CEntries |-> NoneData]
    /\ cSuccess = [e \in CEntries |-> TRUE]
    /\ cSetup = [e \in CEntries |-> NoOutcome]
    /\ cEntities = [e \in CEntries |-> <<>>]
    /\ cStream = [p \in CameraPairs |-> "None"]
    /\ cSubs = {}

ApiLists == { {INFO_API_KEY}, {INFO_API_KEY, CAMERA_API_KEY} }

\* Setup and polling of the entries in ES.
CameraSetupNext(ES, choices) ==
    \E e \in ES :
        \/ CSetupStart(e)
        \/ CSetupFirstRefresh(e, choices)
        \/ CAddedToHass(e)
        \/ CRefresh(e, choices)

\* The operations the host invokes on the added entities of the entries in ES.
CameraCallNext(ES) ==
    \E e \in ES :
        /\ Added(e)
        /\ \E self \in Entities(e) :
              \/ \E prop \in CameraProperties : CReadProperty(self, prop)
              \/ CCameraImage(self)
              \/ \E method \in {"enable_motion_detection",
                                 "disable_motion_detection"} :
                     CSetMotionDetection(self, method)

\* Stream creation and source-changed signals for the entries in ES.
CameraStreamNext(ES) ==
    \/ \E e \in ES :
          /\ Added(e)
          /\ \E self \in Entities(e) : CCreateStream(self)
    \/ \E e \in ES, cam_id \in AllCameraIds, url \in SourceUrls :
          CSourceChanged(e, cam_id, url)


----------------------------------------------------------------------------
(* Specifications                                                          *)

CallStart ==
    /\ op = NoOp
    /\ ret = NoOutcome
    /\ vendorCall = NoCall
    /\ vendorDid = NoOutcome

AladdinIdle ==
    AladdinStart([e \in AEntries |->
                     (CONF_USERNAME :> "user") @@ (CONF_PASSWORD :> "pw")])

CameraIdle == CameraStart([e \in CEntries |-> {INFO_API_KEY, CAMERA_API_KEY}])

InitAladdin ==
    /\ \E data \in [AEntries -> EntryDataChoices] : AladdinStart(data)
    /\ WeatherStart
    /\ CameraIdle
    /\ CallStart

SpecAladdin == InitAladdin /\ [][AladdinNext]_vars

InitWeather == AladdinIdle /\ WeatherStart /\ CameraIdle /\ CallStart

SpecWeather == InitWeather /\ [][WeatherNext]_vars

InitCamera ==
    /\ AladdinIdle
    /\ WeatherStart
    /\ \E apis \in [CEntries -> ApiLists] : CameraStart(apis)
    /\ CallStart

\* Setup and polling of both NAS entries.
SpecCameraSetup ==
    InitCamera /\ [][CameraSetupNext(CEntries, CameraFlagChoices)]_vars

\* One NAS entry with two cameras and every entity operation.
SpecCameraCalls ==
    InitCamera
    /\ [][\/ CameraSetupNext({"s1"}, CameraFlagChoices)
          \/ CameraCallNext({"s1"})]_vars

\* Both NAS entries with streams and source-changed signals; every camera
\* a poll lists is enabled.
SpecCameraStreams ==
    InitCamera
    /\ [][\/ CameraSetupNext(CEntries, {RecordingFlags})
          \/ CameraStreamNext(CEntries)]_vars

\* The operations of the weather entities and of the camera entities of the
\* single-camera NAS together.
SpecEntities ==
    InitCamera
    /\ [][\/ WeatherNext
          \/ CameraSetupNext({"s2"}, CameraFlagChoices)
          \/ CameraCallNext({"s2"})
          \/ CameraStreamNext({"s2"})]_vars


----------------------------------------------------------------------------
(* Claims about aladdin_connect                                            *)

LoginWasFalsy(e) ==
    /\ aCause[e].step = "login"
    /\ aCause[e].did.kind = "return"
    /\ ~Truthy(aCause[e].did.val)

RaisedRecognized(e) ==
    /\ aCause[e].did.kind = "raise"
    /\ ExceptMatches(aCause[e].did.val,
                     {"TypeError", "KeyError", "NameError", "ValueError"})

\* C3: when login returns a falsy result, async_setup_entry ends by raising
\* ConfigEntryAuthFailed and never ConfigEntryNotReady.
C3_AuthFailedNotConverted ==
    \A e \in AEntries :
        LoginWasFalsy(e) => aOutcome[e] = Raise("ConfigEntryAuthFailed")

C3_Witness ==
    \E e \in AEntries :
        LoginWasFalsy(e) /\ aOutcome[e] = Raise("ConfigEntryAuthFailed")

\* C4 as stated: a recognized exception raised by any step of
\* async_setup_entry (reading the credentials, constructing the client,
\* running login) ends the setup with ConfigEntryNotReady.
C4_Original ==
    \A e \in AEntries :
        (aCause[e].step \in {"read_credentials", "construct", "login"}
            /\ RaisedRecognized(e))
        => aOutcome[e] = Raise("ConfigEntryNotReady")

\* C4 amended: a recognized exception raised by login ends the setup with
\* ConfigEntryNotReady; one raised while reading the credentials or
\* constructing the client, both outside the try block, propagates unchanged.
C4_LoginOnlyNotReady ==
    \A e \in AEntries :
        /\ (aCause[e].step = "login" /\ RaisedRecognized(e))
               => aOutcome[e] = Raise("ConfigEntryNotReady")
        /\ (aCause[e].step \in {"read_credentials", "construct"}
                /\ aCause[e].did.kind = "raise")
               => aOutcome[e] = aCause[e].did

C4_Witness ==
    /\ \E e \in AEntries :
          /\ aCause[e].step = "login"
          /\ aCause[e].did = Raise("JSONDecodeError")
          /\ aOutcome[e] = Raise("ConfigEntryNotReady")
    /\ \E e \in AEntries :
          /\ aCause[e].step = "read_credentials"
          /\ aOutcome[e] = Raise("KeyError")

StoredEntries ==
    IF ALADDIN_DOMAIN \in DOMAIN hassData
    THEN DOMAIN hassData[ALADDIN_DOMAIN] ELSE {}

\* An attempt of entry e ends in this step.
AttemptEnds(e) ==
    \/ aPc[e] = "login" /\ aPc'[e] = "idle"
    \/ aAttempts'[e] # aAttempts[e] /\ aPc'[e] = "idle"

\* C9: the client is stored and the cover platform set up only after login
\* returned a truthy result; every failing attempt leaves hass.data and the
\* platforms unchanged and does not return True; hass.data[DOMAIN] holds
\* exactly the entries whose setup succeeded.
C9_StoredIffSucceeded ==
    /\ [](/\ StoredEntries = aSucceeded
          /\ (aSucceeded = {} => ALADDIN_DOMAIN \notin DOMAIN hassData)
          /\ aPlatforms \subseteq aSucceeded
          /\ \A e \in AEntries :
                aOutcome[e] = Return("True")
                => /\ aCause[e].step = "login"
                   /\ aCause[e].did.kind = "return"
                   /\ Truthy(aCause[e].did.val)
                   /\ e \in StoredEntries)
    /\ [][\A e \in AEntries :
            AttemptEnds(e) =>
               IF aCause'[e].step = "login" /\ aCause'[e].did.kind = "return"
                   /\ Truthy(aCause'[e].did.val)
               THEN /\ aOutcome'[e] = Return("True")
                    /\ e \in aPlatforms'
                    /\ hassData'[ALADDIN_DOMAIN][e] = acc[e]
               ELSE /\ aOutcome'[e].kind = "raise"
                    /\ UNCHANGED <<hassData, aPlatforms, aSucceeded>>]_vars

C9_Witness ==
    \E e, f \in AEntries :
        /\ e # f
        /\ StoredEntries = {e}
        /\ aOutcome[e] = Return("True")
        /\ aOutcome[f] = Raise("ConfigEntryAuthFailed")
        /\ aAttempts[f] = 2

----------------------------------------------------------------------------
(* Claims about aemet weather                                              *)

\* The snapshot key each weather property is specified to read.
SpecifiedWeatherKey(prop, mode) ==
    CASE prop = "condition"    -> "condition"
      [] prop = "humidity"     -> "humidity"
      [] prop = "pressure"     -> "pressure"
      [] prop = "temperature"  -> "temperature"
      [] prop = "wind_bearing" -> "wind-bearing"
      [] prop = "wind_speed"   -> "wind-speed"
      [] prop = "forecast"     -> IF mode = "daily" THEN "forecast-daily"
                                  ELSE "forecast-hourly"

\* C7: every AemetWeather property read returns the value the current
\* snapshot holds under the property's key (forecast: the field of the
\* entity's own mode), also after the coordinator has refreshed.
C7_ReadThrough ==
    [][(op'.component = "weather" /\ UNCHANGED weatherVars)
        => ret' = Return(wData'[SpecifiedWeatherKey(op'.name, op'.mode)])]_vars

C7_Witness ==
    /\ op.component = "weather"
    /\ op.name = "forecast"
    /\ op.mode = "hourly"
    /\ wData = WeatherSnapshot(2)
    /\ ret = Return("forecast-hourly@2")

----------------------------------------------------------------------------
(* Claims about the synology_dsm camera                                    *)

\* The last step was an entity operation (every operation rewrites the
\* record of the last call).
Called == callVars' # callVars

Listed(e, k) == cData[e] # NoneData /\ k \in DOMAIN cData[e].cameras

\* C1: available is true exactly when the camera's is_enabled flag in the
\* current snapshot is true and coordinator.last_update_success is true.
C1_AvailableIff ==
    [][(Called /\ op'.component = "camera" /\ op'.name = "available"
          /\ Listed(op'.entry, op'.cam))
       => ret' = Return(IF cData[op'.entry].cameras[op'.cam].is_enabled
                            /\ cSuccess[op'.entry]
                        THEN "True" ELSE "False")]_vars

C1_Witness ==
    /\ op = CameraOp("available", "s1", 2)
    /\ ret = Return("False")
    /\ Listed("s1", 2)
    /\ cData["s1"].cameras[2].is_enabled
    /\ ~cSuccess["s1"]

RecognizedVendorKinds ==
    { "SynologyDSMAPIErrorException", "SynologyDSMRequestException",
      "ConnectionRefusedError" }

VendorCallingOps ==
    {"camera_image", "enable_motion_detection", "disable_motion_detection"}

\* C6 as stated: whenever the vendor call of camera_image,
\* enable_motion_detection or disable_motion_detection raises one of the
\* three vendor kinds, the operation completes without raising.
C6_Original ==
    (op.component = "camera" /\ op.name \in VendorCallingOps
        /\ vendorDid.kind = "raise" /\ vendorDid.val \in RecognizedVendorKinds)
    => ret.kind = "return"

\* C6 amended: camera_image completes with None when its vendor call raises
\* one of the three kinds; enable_motion_detection and
\* disable_motion_detection have no handler, and whatever their vendor call
\* raises reaches their caller unchanged.
C6_OnlyImageConverts ==
    /\ (op.component = "camera" /\ op.name = "camera_image"
          /\ vendorDid.kind = "raise"
          /\ vendorDid.val \in RecognizedVendorKinds)
       => ret = Return("None")
    /\ (op.component = "camera"
          /\ op.name \in {"enable_motion_detection", "disable_motion_detection"}
          /\ vendorDid.kind = "raise")
       => ret = vendorDid

C6_Witness ==
    /\ op = CameraOp("disable_motion_detection", "s1", 1)
    /\ vendorCall.method = "disable_motion_detection"
    /\ vendorDid = Raise("SynologyDSMRequestException")
    /\ ret = vendorDid

SignalOp(o) == o.component = "camera" /\ \E u \in SourceUrls : o.name = "signal " \o u
SignalUrl(o) == CHOOSE u \in SourceUrls : o.name = "signal " \o u

\* C5: a source-changed signal for entry E and camera X updates the stream
\* of the entity of camera X under entry E, when that entity has a stream,
\* and leaves the stream of every other camera entity unchanged.
C5_SignalReachesOnlyItsCamera ==
    [][((Called \/ cStream' # cStream) /\ SignalOp(op'))
       => LET target == <<op'.entry, op'.cam>>
          IN  /\ \A p \in CameraPairs :
                    p # target => cStream'[p] = cStream[p]
              /\ target \in CameraPairs
                 => /\ cStream[target] = "None" => cStream'[target] = "None"
                    /\ (cStream[target] # "None"
                          /\ Listed(op'.entry, op'.cam))
                       => cStream'[target] = SignalUrl(op')]_vars

C5_Witness ==
    /\ op = CameraOp("signal rtsp://moved/1", "s1", 1)
    /\ cStream[<<"s1", 1>>] = "rtsp://moved/1"
    /\ cStream[<<"s1", 2>>] = "rtsp://s1/2"
    /\ cStream[<<"s2", 1>>] = "rtsp://s2/1"

NoDuplicates(seq) ==
    \A i, j \in DOMAIN seq : seq[i].key = seq[j].key => i = j

\* C10: without the camera API, setup returns with no refresh and no
\* entity; with it, no entity exists before the first refresh has
\* completed, and setup adds exactly one SynoDSMCamera per camera id of the
\* refreshed snapshot's "cameras" mapping.
C10_SetupAddsOnePerCamera ==
    /\ [](\A e \in CEntries :
            /\ (cSetup[e] = Return("None") /\ CAMERA_API_KEY \notin cApis[e])
               => cData[e] = NoneData /\ cEntities[e] = <<>>
            /\ CAMERA_API_KEY \notin cApis[e] => cSetup[e] # Pending
            /\ cData[e] = NoneData => cEntities[e] = <<>>
            /\ cSetup[e] = Pending => cEntities[e] = <<>>)
    /\ [][\A e \in CEntries :
            (cSetup[e] = Pending /\ cSetup'[e] = Return("None"))
            => /\ cData'[e] # NoneData
               /\ { cEntities'[e][i].key : i \in DOMAIN cEntities'[e] }
                      = DOMAIN cData'[e].cameras
               /\ NoDuplicates(cEntities'[e])
               /\ \A i \in DOMAIN cEntities'[e] :
                     cEntities'[e][i].entry = e]_vars

C10_Witness ==
    /\ cSetup["s1"] = Return("None")
    /\ CAMERA_API_KEY \in cApis["s1"]
    /\ Len(cEntities["s1"]) = 2
    /\ EntityKeys("s1") = DOMAIN cData["s1"].cameras
    /\ cSetup["s2"] = Return("None")
    /\ CAMERA_API_KEY \notin cApis["s2"]
    /\ cData["s2"] = NoneData

----------------------------------------------------------------------------
(* Claim about both kinds of entity                                        *)

\* C8: no operation of an AemetWeather or SynoDSMCamera entity (property
\* reads, camera_image, stream_source, enable_/disable_motion_detection,
\* the source-changed handler) changes coordinator.data or
\* coordinator.last_update_success of either coordinator.
C8_EntitiesLeaveSnapshot ==
    [][(Called \/ cStream' # cStream)
       => UNCHANGED <<wData, wSuccess, cData, cSuccess>>]_vars

C8_Witness ==
    /\ op = CameraOp("enable_motion_detection", "s2", 1)
    /\ vendorCall.method = "enable_motion_detection"
    /\ ret = Return("None")
    /\ Listed("s2", 1)
    /\ ~cData["s2"].cameras[1].is_motion_detection_enabled
    /\ wEntities # {}

====
